---- MODULE Spec2Model ----
(***************************************************************************)
(* Model of src/app.py: the C4 repository analytics dashboard.             *)
(*                                                                         *)
(* Python strings whose characters matter (URLs, column names, titles,     *)
(* search terms) are sequences of one-character strings.  An optional      *)
(* dictionary key is a sequence of length 0 (key absent) or 1 (key         *)
(* present).  A CSV cell is a tagged record: a string, or the NaN that     *)
(* pandas.read_csv produces for an empty cell.                             *)
(***************************************************************************)
EXTENDS Integers, Sequences, FiniteSets, TLC

(***************************************************************************)
(* Bounds of the model.                                                    *)
(***************************************************************************)
\* rows of an uploaded table
MaxRows == 2
\* trailing slashes of a repository URL
MaxSlashes == 2

(***************************************************************************)
(* Characters and strings.                                                 *)
(***************************************************************************)
Str(s) == [t |-> "str", v |-> s]
NaN == [t |-> "nan", v |-> <<>>]

\* str.lower(), character by character
LowerChar(c) ==
    CASE c = "A" -> "a" [] c = "B" -> "b" [] c = "C" -> "c" [] c = "D" -> "d"
      [] c = "E" -> "e" [] c = "F" -> "f" [] c = "G" -> "g" [] c = "H" -> "h"
      [] c = "I" -> "i" [] c = "J" -> "j" [] c = "K" -> "k" [] c = "L" -> "l"
      [] c = "M" -> "m" [] c = "N" -> "n" [] c = "O" -> "o" [] c = "P" -> "p"
      [] c = "Q" -> "q" [] c = "R" -> "r" [] c = "S" -> "s" [] c = "T" -> "t"
      [] c = "U" -> "u" [] c = "V" -> "v" [] c = "W" -> "w" [] c = "X" -> "x"
      [] c = "Y" -> "y" [] c = "Z" -> "z" [] OTHER -> c

Lower(s) == [i \in 1..Len(s) |-> LowerChar(s[i])]

AsciiLetters ==
    {"a","b","c","d","e","f","g","h","i","j","k","l","m","n","o","p","q","r",
     "s","t","u","v","w","x","y","z",
     "A","B","C","D","E","F","G","H","I","J","K","L","M","N","O","P","Q","R",
     "S","T","U","V","W","X","Y","Z"}

\* urllib.parse.scheme_chars
SchemeChars == AsciiLetters \cup {"0","1","2","3","4","5","6","7","8","9","+","-","."}

\* str.find: 1-based index of the first c at or after position from, 0 if none
FindFrom(s, c, from) ==
    IF \E i \in from..Len(s) : s[i] = c
    THEN CHOOSE i \in from..Len(s) : s[i] = c /\ \A j \in from..(i - 1) : s[j] # c
    ELSE 0

\* s[from:] in Python terms, from being 1-based here
Drop(s, from) == SubSeq(s, from, Len(s))

\* RStripSlash, removing one trailing slash only
RStripOneSlash(s) ==
    IF s # <<>> /\ s[Len(s)] = "/" THEN SubSeq(s, 1, Len(s) - 1) ELSE s

\* str.rstrip('/'): removes every trailing slash
RECURSIVE RStripSlash(_)
RStripSlash(s) ==
    IF s # <<>> /\ s[Len(s)] = "/" THEN RStripSlash(SubSeq(s, 1, Len(s) - 1)) ELSE s

\* `needle in haystack` for Python strings
Contains(haystack, needle) ==
    \E i \in 1..(Len(haystack) - Len(needle) + 1) :
        SubSeq(haystack, i, i + Len(needle) - 1) = needle

\* str(value) of a CSV cell
StrOf(cell) == IF cell.t = "nan" THEN <<"n","a","n">> ELSE cell.v

\* bool(value) of a CSV cell: NaN is a non-zero float, hence truthy
Truthy(cell) == IF cell.t = "nan" THEN TRUE ELSE cell.v # <<>>

(***************************************************************************)
(* urllib.parse.urlparse, restricted to the netloc and path components.    *)
(* The model's URLs contain no whitespace, ';' or '[' characters.          *)
(***************************************************************************)
\* the part of s before the first c: s.split(c, 1)[0]
Before(s, c) ==
    IF FindFrom(s, c, 1) > 0 THEN SubSeq(s, 1, FindFrom(s, c, 1) - 1) ELSE s

\* url[:i] is a scheme: i > 0, a leading letter, scheme characters only
IsScheme(url, i) ==
    /\ i > 1
    /\ url[1] \in AsciiLetters
    /\ \A k \in 1..(i - 1) : url[k] \in SchemeChars

\* the URL behind its scheme
AfterScheme(url, i) == IF IsScheme(url, i) THEN Drop(url, i + 1) ELSE url

\* _splitnetloc(url, 2): the earliest of '/', '?', '#' behind the two slashes
NetlocEnd(url) ==
    IF \E k \in 3..Len(url) : url[k] \in {"/", "?", "#"}
    THEN CHOOSE k \in 3..Len(url) :
            /\ url[k] \in {"/", "?", "#"}
            /\ \A j \in 3..(k - 1) : url[j] \notin {"/", "?", "#"}
    ELSE Len(url) + 1

SplitNetloc(url, delim) ==
    IF Len(url) >= 2 /\ url[1] = "/" /\ url[2] = "/"
    THEN [netloc |-> SubSeq(url, 3, delim - 1), rest |-> Drop(url, delim)]
    ELSE [netloc |-> <<>>, rest |-> url]

PathOf(split) ==
    [netloc |-> split.netloc, path |-> Before(Before(split.rest, "#"), "?")]

NetlocAndPath(url) == PathOf(SplitNetloc(url, NetlocEnd(url)))

urlparse(url) == NetlocAndPath(AfterScheme(url, FindFrom(url, ":", 1)))

\* Identity, without the lower-casing
IdentityKeepsCase(parsed_url) == RStripSlash(parsed_url.netloc \o parsed_url.path)

\* f"{parsed_url.netloc}{parsed_url.path}".rstrip('/').lower()
Identity(parsed_url) == Lower(RStripSlash(parsed_url.netloc \o parsed_url.path))

normalized_url(url) == Identity(urlparse(url))

(***************************************************************************)
(* Architecture documents.                                                 *)
(*   shape "None"   : no document (Python None)                            *)
(*   shape "root"   : a mapping with an 'elements' key                     *)
(*   shape "spec"   : a mapping with specification.elements                *)
(*   shape "other"  : a non-empty mapping with neither                     *)
(*   shape "specnull": a mapping whose 'specification' is null, and        *)
(*                    without 'elements' key                               *)
(*   shape "list"   : a non-empty JSON array                               *)
(* elements is the elements mapping in insertion order: a sequence of      *)
(* [key, data].  data = [kind, title, links, id], kind/title/id optional.  *)
(* links is the element's list of links ([] when the key is missing or the *)
(* list is empty: the code treats both alike); a link is [title, url],     *)
(* both optional.                                                          *)
(***************************************************************************)
NoDoc == [shape |-> "None", elements |-> <<>>]

IsMapping(doc) == doc.shape \in {"root", "spec", "other", "specnull"}

Link(title, url) == [title |-> title, url |-> url]

\* target_kinds of both handlers
target_kinds == {"container", "application", "service", "webapp", "mobile"}

\* the entry with the mapping's key written into it: element_data['id'] = element_id
WithId(entry) == [entry EXCEPT !.data.id = <<entry.key>>]

KindAccepted(entry, kinds) == entry.data.kind # <<>> /\ entry.data.kind[1] \in kinds

\* the elements mapping as the loop leaves it
Marked(es, kinds) ==
    [i \in 1..Len(es) |-> IF KindAccepted(es[i], kinds) THEN WithId(es[i]) ELSE es[i]]

\* the list the loop builds, from the mapping as the loop leaves it
Appended(marked, kinds) ==
    SelectSeq([i \in 1..Len(marked) |-> marked[i].data],
              LAMBDA d : d.kind # <<>> /\ d.kind[1] \in kinds)

Extracted(c4_data, marked, kinds) ==
    [elements |-> Appended(marked, kinds),
     c4_data |-> [c4_data EXCEPT !.elements = marked],
     raised |-> FALSE]

\* `'elements' in c4_data['specification']` raises a TypeError when the
\* document has no 'elements' key and its 'specification' is null
SpecificationLookupRaises(c4_data) == c4_data.shape = "specnull"

\* extract_elements: the returned list, the document as the call leaves it
\* (the entries are written in place), and whether the call raised
extract_elements(c4_data, kinds) ==
    IF c4_data.shape \in {"root", "spec"}
    THEN Extracted(c4_data, Marked(c4_data.elements, kinds), kinds)
    ELSE [elements |-> <<>>, c4_data |-> c4_data,
          raised |-> SpecificationLookupRaises(c4_data)]

\* SetFlag, counting only the links that carry a URL
SetFlagNeedsUrl(result, link, link_types) ==
    IF /\ link.title # <<>>
       /\ link.url # <<>>
       /\ \E i \in 1..Len(link_types) : link_types[i] = link.title[1]
    THEN [result EXCEPT ![link.title[1]] = TRUE]
    ELSE result

\* the loop body of check_element_links for one link
SetFlag(result, link, link_types) ==
    IF link.title # <<>> /\ \E i \in 1..Len(link_types) : link_types[i] = link.title[1]
    THEN [result EXCEPT ![link.title[1]] = TRUE]
    ELSE result

RECURSIVE check_links_from(_, _, _, _)
check_links_from(links, j, link_types, result) ==
    IF j > Len(links) THEN result
    ELSE check_links_from(links, j + 1, link_types, SetFlag(result, links[j], link_types))

\* check_element_links: the flags, a function over the requested kinds
check_element_links(element, link_types) ==
    check_links_from(element.links, 1, link_types,
                     [k \in {link_types[i] : i \in 1..Len(link_types)} |-> FALSE])

\* get_repository_url: <<>> is None, <<u>> the returned value u
RECURSIVE get_repository_url_from(_, _)
get_repository_url_from(links, j) ==
    IF j > Len(links) THEN <<>>
    ELSE IF links[j].title = <<"repository">> /\ links[j].url # <<>>
         THEN links[j].url
         ELSE get_repository_url_from(links, j + 1)

get_repository_url(element) == get_repository_url_from(element.links, 1)

(***************************************************************************)
(* fetch_gitlab_json.  A response is what the network gives for the one    *)
(* request: a transport error, an HTTP status with a body that is JSON     *)
(* (body is the parsed document) or is not.  Strings are <<>> when empty   *)
(* or None.  The result is [value, requests, raised]: value is <<>> for    *)
(* None and <<doc>> for a document, requests the number of requests.get    *)
(* calls, raised whether an exception leaves the function.                 *)
(***************************************************************************)
JsonResponse(doc) == [kind |-> "json", status |-> 200, body |-> doc]
HttpError(status) == [kind |-> "json", status |-> status, body |-> NoDoc]
NotJson == [kind |-> "notjson", status |-> 200, body |-> NoDoc]
TransportError == [kind |-> "transport", status |-> 0, body |-> NoDoc]

\* the exception the body of the try raises: requests.get, then
\* raise_for_status, then response.json
RaisedBy(response) ==
    IF response.kind = "transport" THEN "ConnectionError"
    ELSE IF response.status >= 400 THEN "HTTPError"
    ELSE IF response.kind = "notjson" THEN "JSONDecodeError"
    ELSE "none"

\* the except clauses, without the catch-all
ExceptClausesHttpOnly == <<"HTTPError">>

\* the except clauses of the try
ExceptClauses == <<"HTTPError", "Exception">>

\* a clause catches the exceptions of its class; every exception of
\* RaisedBy is an Exception
Caught(exc) ==
    \E i \in 1..Len(ExceptClauses) :
        ExceptClauses[i] = "Exception" \/ ExceptClauses[i] = exc

\* the try statement around the one requests.get call
Requested(response, exc) ==
    IF exc = "none"
    THEN [value |-> <<response.body>>, requests |-> 1, raised |-> FALSE]
    ELSE [value |-> <<>>, requests |-> 1, raised |-> ~Caught(exc)]

fetch_gitlab_json(url, token, project_id, file_path, response) ==
    IF url # <<>> THEN Requested(response, RaisedBy(response))
    ELSE IF project_id # <<>> /\ file_path # <<>>
         THEN Requested(response, RaisedBy(response))
         ELSE [value |-> <<>>, requests |-> 0, raised |-> FALSE]

(***************************************************************************)
(* Tables (pandas DataFrames read from CSV): columns is the header, rows   *)
(* the data rows, each a sequence of cells aligned with columns.           *)
(***************************************************************************)
NoTable == [loaded |-> FALSE, columns |-> <<>>, rows |-> <<>>]

\* index of the first column whose lower-cased name is "url", 0 if none
FindUrlColumn(columns) ==
    IF \E i \in 1..Len(columns) : Lower(columns[i]) = <<"u","r","l">>
    THEN CHOOSE i \in 1..Len(columns) :
            /\ Lower(columns[i]) = <<"u","r","l">>
            /\ \A j \in 1..(i - 1) : Lower(columns[j]) # <<"u","r","l">>
    ELSE 0

\* row.get(name, default) for a column given by name
RowGet(columns, row, name, default) ==
    IF \E i \in 1..Len(columns) : columns[i] = name
    THEN row[CHOOSE i \in 1..Len(columns) : columns[i] = name]
    ELSE default

\* AddRepo, keeping the element an identity already has
AddRepoFirstWins(acc, element, repo_url) ==
    IF repo_url # <<>> /\ repo_url[1] # <<>>
    THEN acc @@ (normalized_url(repo_url[1]) :> element)
    ELSE acc

\* element_repos: normalized identity -> element, later elements overwrite
\* element_repos after the loop body for one element
AddRepo(acc, element, repo_url) ==
    IF repo_url # <<>> /\ repo_url[1] # <<>>
    THEN (normalized_url(repo_url[1]) :> element) @@ acc
    ELSE acc

RECURSIVE element_repos_from(_, _, _)
element_repos_from(elements, i, acc) ==
    IF i > Len(elements) THEN acc
    ELSE element_repos_from(elements, i + 1,
             AddRepo(acc, elements[i], get_repository_url(elements[i])))

element_repos(elements) == element_repos_from(elements, 1, <<>>)

\* RowMatches, without the lower-casing of the row's URL
RowMatchesCaseSensitive(row, url_column, repos) ==
    /\ Truthy(row[url_column])
    /\ RStripSlash(urlparse(StrOf(row[url_column])).netloc
                   \o urlparse(StrOf(row[url_column])).path) \in DOMAIN repos

\* the condition of the loop over the rows
RowMatches(row, url_column, repos) ==
    /\ Truthy(row[url_column])
    /\ normalized_url(StrOf(row[url_column])) \in DOMAIN repos

\* one entry of matches; name is the row's index
Match(i, row, url_column, repos) ==
    [name |-> i,
     csv_repo |-> row,
     c4_element |-> repos[normalized_url(StrOf(row[url_column]))]]

MatchedRows(rows, url_column, repos) ==
    SelectSeq([i \in 1..Len(rows) |-> i],
              LAMBDA i : RowMatches(rows[i], url_column, repos))

MatchesOf(rows, idx, url_column, repos) ==
    [k \in 1..Len(idx) |-> Match(idx[k], rows[idx[k]], url_column, repos)]

MatchesWith(rows, url_column, repos) ==
    MatchesOf(rows, MatchedRows(rows, url_column, repos), url_column, repos)

\* match_repositories: the matches, in row order
match_repositories(elements, csv_data) ==
    IF ~csv_data.loaded \/ FindUrlColumn(csv_data.columns) = 0 THEN <<>>
    ELSE MatchesWith(csv_data.rows, FindUrlColumn(csv_data.columns),
                     element_repos(elements))

(***************************************************************************)
(* The "Critical Repositories Progress" section of one script run.         *)
(***************************************************************************)
UrlName == <<"u","r","l">>
NotMappedInC4 == <<"N","o","t"," ","m","a","p","p","e","d"," ","i","n"," ","C","4">>

InSeq(x, seq) == \E i \in 1..Len(seq) : seq[i] = x

\* progress_pct, dividing whatever the number of selected kinds
progress_pct_unguarded(present_links, total_selected) ==
    [num |-> present_links * 100, den |-> total_selected]

\* progress_pct as an exact fraction num/den
progress_pct(present_links, total_selected) ==
    IF total_selected > 0
    THEN [num |-> present_links * 100, den |-> total_selected]
    ELSE [num |-> 0, den |-> 1]

\* link_info after "if monitoring is true, count it as monitor"
AliasMonitor(link_info, selected_links) ==
    IF /\ "monitoring" \in DOMAIN link_info
       /\ link_info["monitoring"]
       /\ InSeq("monitor", selected_links)
    THEN [link_info EXCEPT !["monitor"] = TRUE]
    ELSE link_info

\* StatusOf, Complete as soon as one link is present
StatusOfAnyPresent(present_links, total_selected) ==
    IF present_links > 0 THEN "Complete" ELSE "Incomplete"

StatusOf(present_links, total_selected) ==
    IF present_links = total_selected THEN "Complete" ELSE "Incomplete"

\* the number of selected kinds whose flag is set
present_links_of(link_info, selected_links) ==
    Cardinality({k \in DOMAIN link_info : link_info[k] /\ InSeq(k, selected_links)})

\* one record of progress_data; name (the row's index) is carried along only
\* to state properties, the code's record has no such field
Record(name, csv_repo_url, element, present_links, total_selected) ==
    [name |-> name,
     Repository |-> csv_repo_url,
     Element |-> IF element.title = <<>> THEN <<>> ELSE element.title[1],
     Links |-> <<present_links, total_selected>>,
     Progress |-> progress_pct(present_links, total_selected),
     Status |-> StatusOf(present_links, total_selected)]

\* the body of the loop over matches
ScoreMatch(match, columns, selected_links) ==
    Record(match.name,
           RowGet(columns, match.csv_repo, UrlName, Str(<<>>)),
           match.c4_element,
           present_links_of(AliasMonitor(check_element_links(match.c4_element,
                                                             selected_links),
                                         selected_links),
                            selected_links),
           Len(selected_links))

NotMappedRecord(i, repo_url) ==
    [name |-> i,
     Repository |-> repo_url,
     Element |-> NotMappedInC4,
     Links |-> <<0, 0>>,
     Progress |-> [num |-> 0, den |-> 1],
     Status |-> "Not mapped"]

\* `repo_url not in matched_repo_urls`; a NaN cell is a float object of its own
\* and no element of the model normalizes to "nan", so NaN is never in the set
NotInMatched(repo_url, matched_repo_urls) ==
    repo_url.t = "nan" \/ repo_url \notin matched_repo_urls

\* the rows the second loop appends: a truthy URL that is not in the set
UnmatchedRows(rows, url_column, matched_repo_urls) ==
    IF url_column = 0 THEN <<>>
    ELSE SelectSeq([i \in 1..Len(rows) |-> i],
                   LAMBDA i : /\ Truthy(rows[i][url_column])
                              /\ NotInMatched(rows[i][url_column], matched_repo_urls))

NotMappedRecords(rows, idx, url_column) ==
    [k \in 1..Len(idx) |-> NotMappedRecord(idx[k], rows[idx[k]][url_column])]

WithUnmatched(matched, rows, url_column) ==
    matched \o NotMappedRecords(rows,
                   UnmatchedRows(rows, url_column,
                                 {matched[k].Repository : k \in 1..Len(matched)}),
                   url_column)

\* progress_data: the matched records, then the unmatched rows
progress_data_of(matches, all_repos, selected_links) ==
    WithUnmatched([k \in 1..Len(matches) |->
                      ScoreMatch(matches[k], all_repos.columns, selected_links)],
                  all_repos.rows, FindUrlColumn(all_repos.columns))

CountStatus(progress_data, status) ==
    Cardinality({k \in 1..Len(progress_data) : progress_data[k].Status = status})

(***************************************************************************)
(* Filters.  A FilterSpec is [status, min_progress, max_progress,          *)
(* search_term, element_search].  Series.str.contains takes a search term  *)
(* for a regular expression; the search terms of the model are made of     *)
(* letters, '/' and the wildcard '.'.                                      *)
(***************************************************************************)
NoFilter ==
    [status |-> "All", min_progress |-> 0, max_progress |-> 100,
     search_term |-> <<>>, element_search |-> <<>>]

\* pd.DataFrame(progress_data) has the records' columns, and none when the
\* list is empty
HasColumns(progress_data) == progress_data # <<>>

\* the Repository column holds no string at all (every value is NaN), so the
\* column is a float column and has no .str accessor
ReposNotStrings(progress_data) ==
    /\ progress_data # <<>>
    /\ \A k \in 1..Len(progress_data) : progress_data[k].Repository.t = "nan"

\* filtering raises: a KeyError on a missing column, or an AttributeError on
\* the .str accessor
FilterRaises(progress_data, f) ==
    \/ f.status # "All" /\ ~HasColumns(progress_data)
    \/ f.search_term # <<>> /\ ~HasColumns(progress_data)
    \/ f.search_term # <<>> /\ ReposNotStrings(progress_data)
    \/ f.element_search # <<>> /\ ~HasColumns(progress_data)

InRange(r, f) ==
    /\ r.Progress.num >= f.min_progress * r.Progress.den
    /\ r.Progress.num <= f.max_progress * r.Progress.den

\* re.search(pattern, text) for a pattern of literal characters and '.'
RegexSearch(text, pattern) ==
    \E i \in 1..(Len(text) - Len(pattern) + 1) :
        \A k \in 1..Len(pattern) :
            pattern[k] = "." \/ pattern[k] = text[i + k - 1]

\* Series.str.contains(term, case=False, na=False)
StrContains(cell, term) ==
    cell.t = "str" /\ RegexSearch(Lower(cell.v), Lower(term))

Keeps(r, f) ==
    /\ f.status = "All" \/ r.Status = f.status
    /\ InRange(r, f)
    /\ f.search_term = <<>> \/ StrContains(r.Repository, f.search_term)
    /\ f.element_search = <<>> \/ StrContains(Str(r.Element), f.element_search)

filtered_df_of(progress_data, f) == SelectSeq(progress_data, LAMBDA r : Keeps(r, f))

\* a.Progress > b.Progress
Greater(a, b) == a.Progress.num * b.Progress.den > b.Progress.num * a.Progress.den

\* the places of r in a descending sequence: behind every greater record and
\* before every smaller one, anywhere among the equal ones
Inserts(sorted, r) ==
    {SubSeq(sorted, 1, i) \o <<r>> \o SubSeq(sorted, i + 1, Len(sorted)) :
        i \in {j \in 0..Len(sorted) :
                  /\ \A k \in 1..j : ~Greater(r, sorted[k])
                  /\ \A k \in (j + 1)..Len(sorted) : ~Greater(sorted[k], r)}}

RECURSIVE SortOutcomesFrom(_, _, _)
SortOutcomesFrom(df, k, accs) ==
    IF k > Len(df) THEN accs
    ELSE SortOutcomesFrom(df, k + 1, UNION {Inserts(acc, df[k]) : acc \in accs})

\* sort_values('Progress', ascending=False): the default kind is quicksort,
\* which is not stable, so the records of equal Progress come in an order
\* the build decides; the set of the orders it may return
sort_values(df) == SortOutcomesFrom(df, 1, {<<>>})

NoReport ==
    [shown |-> FALSE, raised |-> FALSE, warnings |-> {},
     progress_data |-> <<>>, filtered_df |-> <<>>,
     complete_repos |-> 0, incomplete_repos |-> 0, unmapped_repos |-> 0,
     total_repos |-> 0]

\* the warnings of the section
WarningsOf(pd, nocol, f) ==
    (IF nocol THEN {"no url column", "cannot identify unmatched"} ELSE {})
    \cup (IF ~HasColumns(pd) /\ f.status = "All"
          THEN {"progress column not found"} ELSE {})
    \cup (IF ~HasColumns(pd) /\ ~FilterRaises(pd, f)
          THEN {"status column not found"} ELSE {})

\* the section for progress_data pd
ReportFrom(pd, csv, f) ==
    IF FilterRaises(pd, f)
    THEN [NoReport EXCEPT !.shown = TRUE, !.raised = TRUE,
                          !.warnings = WarningsOf(pd, FindUrlColumn(csv.columns) = 0, f),
                          !.progress_data = pd, !.total_repos = Len(csv.rows)]
    ELSE [shown |-> TRUE, raised |-> FALSE,
          warnings |-> WarningsOf(pd, FindUrlColumn(csv.columns) = 0, f),
          progress_data |-> pd,
          filtered_df |-> filtered_df_of(pd, f),
          complete_repos |-> CountStatus(pd, "Complete"),
          incomplete_repos |-> CountStatus(pd, "Incomplete"),
          unmapped_repos |-> CountStatus(pd, "Not mapped"),
          total_repos |-> Len(csv.rows)]

\* the section as one run of the script computes it
ReportOf(mapped, csv, links, f) ==
    IF ~csv.loaded \/ Len(mapped) = 0 \/ Len(csv.rows) = 0 THEN NoReport
    ELSE ReportFrom(progress_data_of(match_repositories(mapped, csv), csv, links),
                    csv, f)

(***************************************************************************)
(* Inputs of the model.                                                    *)
(***************************************************************************)
UrlOrders == <<"h",":","/","/","g","/","o">>
UrlOrdersVariant == <<"H",":","/","/","G","/","o","/">>
UrlBilling == <<"h",":","/","/","g","/","b">>

Element(kind, title, links) ==
    [kind |-> kind, title |-> title, links |-> links, id |-> <<>>]

Entry(key, data) == [key |-> key, data |-> data]

\* a service with a repository link and a logs link without URL, a database,
\* and an entry without kind
DocOrders ==
    [shape |-> "root",
     elements |-> <<
        Entry("x", Element(<<"service">>, << <<"O","r">> >>,
                   << Link(<<"repository">>, <<UrlOrders>>), Link(<<"logs">>, <<>>) >>)),
        Entry("y", Element(<<"database">>, << <<"D","b">> >>, <<>>)),
        Entry("z", Element(<<>>, <<>>, <<>>)) >>]

\* under specification.elements: a web application whose only link besides
\* its repository link is a monitoring link
DocMonitoring ==
    [shape |-> "spec",
     elements |-> <<
        Entry("m", Element(<<"webapp">>, << <<"M","o">> >>,
                   << Link(<<"repository">>, <<UrlBilling>>),
                      Link(<<"monitoring">>, <<>>) >>)) >>]

\* two elements whose repository URLs normalize alike, the second one without
\* title, and an element whose first repository link has an empty URL
DocCollision ==
    [shape |-> "root",
     elements |-> <<
        Entry("a", Element(<<"container">>, << <<"A","p">> >>,
                   << Link(<<"repository">>, <<UrlOrders>>),
                      Link(<<"logs">>, <<UrlBilling>>) >>)),
        Entry("b", Element(<<"service">>, <<>>,
                   << Link(<<>>, <<UrlBilling>>),
                      Link(<<"repository">>, <<>>),
                      Link(<<"repository">>, <<UrlOrdersVariant>>),
                      Link(<<"monitoring">>, <<UrlOrders>>),
                      Link(<<"monitor">>, <<>>) >>)),
        Entry("c", Element(<<"mobile">>, << <<"E","m">> >>,
                   << Link(<<"repository">>, << <<>> >>),
                      Link(<<"repository">>, <<UrlBilling>>),
                      Link(<<"logs">>, <<>>) >>)) >>]

DocOther == [shape |-> "other", elements |-> <<>>]
\* {"specification": null}
DocSpecNull == [shape |-> "specnull", elements |-> <<>>]
DocList == [shape |-> "list", elements |-> <<>>]

JsonDocs == {DocOrders, DocMonitoring, DocCollision, DocOther, DocSpecNull, DocList}

\* the cells of a 'url' column, and those of a 'URL' column
Cells == {Str(UrlOrders), Str(UrlBilling), NaN}
CellsUpper == {Str(UrlOrdersVariant), Str(UrlBilling)}

RowsOver(cells) == UNION {[1..n -> {<<c>> : c \in cells}] : n \in 0..MaxRows}

Tables ==
    {[loaded |-> TRUE, columns |-> <<UrlName>>, rows |-> r] : r \in RowsOver(Cells)}
    \cup {[loaded |-> TRUE, columns |-> << <<"U","R","L">> >>, rows |-> r] :
        r \in RowsOver(CellsUpper)}
    \cup {[loaded |-> TRUE, columns |-> << <<"n","a","m","e">> >>, rows |-> r] :
        r \in RowsOver({Str(<<"o">>)})}

\* the values of the sidebar's text inputs, and the answers of the network
Tokens == {<<>>, <<"t">>}
FailureResponses == {HttpError(403), HttpError(404), NotJson, TransportError}

\* project id, file path and answer of the fetches that fail
FailingInputs ==
    {<<<<"1">>, <<"f">>, response>> : response \in FailureResponses}
    \cup {<<<<>>, <<"f">>, JsonResponse(DocOrders)>>,
          <<<<"1">>, <<>>, JsonResponse(DocOrders)>>}

\* the default of load_settings and of Clear Settings
DefaultLinks == <<"repository", "logs", "APM", "openAPI", "monitor", "dashboard">>

\* the link_types of the elements grid
GridLinkTypes ==
    <<"repository", "logs", "APM", "openAPI", "monitor", "monitoring", "dashboard",
      "backstage">>

\* the selections saved with "Save Settings"
Selections ==
    {<<>>, <<"monitor">>, <<"monitor", "monitoring">>, <<"repository", "logs", "APM">>}

\* values of the selected_links query parameter
QuerySelections == {<<"repository", "logs">>}

FilterSpecs ==
    {NoFilter,
     [NoFilter EXCEPT !.status = "Incomplete", !.min_progress = 50,
                      !.element_search = <<"o">>],
     [NoFilter EXCEPT !.status = "Not mapped", !.max_progress = 50,
                      !.search_term = <<"G","/","b">>],
     [NoFilter EXCEPT !.search_term = <<"g",".","o">>]}

(***************************************************************************)
(* Repository URLs in their spellings: a scheme, "://", host and path in   *)
(* one of two letter cases, trailing slashes, and a query or a fragment.   *)
(***************************************************************************)
Schemes == {<<"h">>, <<"S">>}
HostPaths == {<<"g","/","o">>, <<"G","/","O">>}
Slashes(n) == [i \in 1..n |-> "/"]
Suffixes == {<<>>, <<"?","q">>, <<"#","f">>}

UrlOf(scheme, hostpath, slashes, suffix) ==
    scheme \o <<":","/","/">> \o hostpath \o slashes \o suffix

\* the spellings with at most n trailing slashes
UrlSpellings(n) ==
    {UrlOf(s, b, Slashes(k), x) :
        s \in Schemes, b \in HostPaths, k \in 0..n, x \in Suffixes}

\* a URL with a port, and one whose path begins with two slashes
UrlPort == <<"h",":","/","/","g",":","4","/","o">>
UrlSlashPath == <<"h",":","/","/","/","/","x">>

Urls == UrlSpellings(MaxSlashes) \cup {UrlPort, UrlSlashPath}

\* a document with one service whose repository link is url
UrlDoc(url) ==
    [shape |-> "root",
     elements |-> <<
        Entry("x", Element(<<"service">>, << <<"O","r">> >>,
                   << Link(<<"repository">>, <<url>>) >>)) >>]

\* a table with one row whose url cell is url
UrlTable(url) == [loaded |-> TRUE, columns |-> <<UrlName>>, rows |-> << <<Str(url)>> >>]

\* the documents and tables of the sessions that exercise the settings
SettingsDocs == {DocOrders, DocMonitoring}
SettingsTables == {UrlTable(UrlOrders), UrlTable(UrlBilling)}

(***************************************************************************)
(* The session.  Every user action reruns the script; what a run leaves    *)
(* behind is the session state and the values of the widgets.  The         *)
(* progress section is computed anew from them in every run and kept       *)
(* nowhere, so it is a function of the state.                              *)
(***************************************************************************)
VARIABLES
    c4_data,          \* st.session_state.c4_data
    mapped_elements,  \* st.session_state.mapped_elements
    csv_data,         \* st.session_state.csv_data
    selected_links,   \* st.session_state.selected_links
    filters,          \* the values of the "Filter Repositories" widgets
    fetch_call,       \* the latest call of fetch_gitlab_json: the answer of the
                      \* network, the requests issued, the outcome
    multiselect,      \* the value of "Select links to evaluate for progress:"
    query_params,     \* st.query_params['selected_links'], parsed: <<>> when
                      \* the page's URL has no such parameter, else <<links>>
    settings_file,    \* the GitLab token held by c4_analytics_settings.json:
                      \* <<>> when there is no file or no token in it
    local_storage     \* the GitLab token held by the browser's localStorage
                      \* entry 'c4_analytics_settings': <<>> when there is no
                      \* entry, no gitlab_token in it, or an empty one

vars == <<c4_data, mapped_elements, csv_data, selected_links, filters, fetch_call,
          multiselect, query_params, settings_file, local_storage>>

NoCall ==
    [called |-> FALSE, answer |-> "none", requests |-> 0, returned_none |-> FALSE,
     raised |-> FALSE]

\* the first run of a session, for the query parameters of the page's URL:
\* the selection is the default one unless the URL carries selected_links
Started(params) ==
    /\ c4_data = NoDoc
    /\ mapped_elements = <<>>
    /\ csv_data = NoTable
    /\ query_params = params
    /\ selected_links = IF params = <<>> THEN DefaultLinks ELSE params[1]
    /\ multiselect = selected_links
    /\ filters = NoFilter
    /\ fetch_call = NoCall
    /\ settings_file = <<>>
    /\ local_storage = <<>>

\* the page opened without query parameters
Init == Started(<<>>)

\* the page opened with or without a selected_links parameter
InitSettings == \E params \in {<<>>} \cup {<<q>> : q \in QuerySelections} : Started(params)

\* st.session_state.selected_links once the top of the script has run: every
\* run assigns it the selected_links query parameter when there is one
Overridden(links) == IF query_params = <<>> THEN links ELSE query_params[1]

\* a run whose handlers leave the selection and the multiselect alone
Rerun ==
    /\ selected_links' = Overridden(selected_links)
    /\ UNCHANGED <<multiselect, query_params>>

Persisted == UNCHANGED <<settings_file, local_storage>>

\* the matches, the records and the section of the current run
matches == match_repositories(mapped_elements, csv_data)
progress_data == progress_data_of(matches, csv_data, selected_links)
report == ReportOf(mapped_elements, csv_data, selected_links, filters)

\* the orders in which the run may display the filtered records
displayed ==
    IF report.shown /\ ~report.raised THEN sort_values(report.filtered_df) ELSE {}

\* the decimal digits of a natural number, as an f-string writes it
Digits == <<"0","1","2","3","4","5","6","7","8","9">>

RECURSIVE FormatInt(_)
FormatInt(n) ==
    IF n < 10 THEN <<Digits[n + 1]>>
    ELSE FormatInt(n \div 10) \o <<Digits[(n % 10) + 1]>>

\* the 'Links' field as the record holds it: f"{present_links}/{total_selected}"
LinksText(repo) == FormatInt(repo.Links[1]) \o <<"/">> \o FormatInt(repo.Links[2])

\* len(text.split('/')): one more than the number of slashes
SplitLen(text) == Cardinality({i \in 1..Len(text) : text[i] = "/"}) + 1

\* the number behind "Missing:" in "Repositories Needing Attention"
Missing(repo, links) == Len(links) - SplitLen(LinksText(repo))

Reversed(df) == [i \in 1..Len(df) |-> df[Len(df) + 1 - i]]

\* the rows of "Repositories Needing Attention"
AttentionRows == 5

head(df, n) == SubSeq(df, 1, IF Len(df) < n THEN Len(df) ELSE n)

incomplete_df ==
    SelectSeq(report.progress_data, LAMBDA r : r.Status = "Incomplete")

\* the lists "Repositories Needing Attention" may show: the incomplete
\* records in ascending order of Progress (the ascending arrangements are
\* the descending ones read backwards), cut after five
attention_needed ==
    IF report.shown /\ ~report.raised
    THEN {head(Reversed(d), AttentionRows) : d \in sort_values(incomplete_df)}
    ELSE {}

\* the progress section is rendered, with its filter widgets
Shown(mapped, csv) == csv.loaded /\ Len(mapped) > 0 /\ Len(csv.rows) > 0

\* the rest of the script run, for the session state the handlers left: the
\* widgets of a section that is not rendered lose their values
Render(mapped, csv) ==
    filters' = IF Shown(mapped, csv) THEN filters ELSE NoFilter

\* the script run ends in an uncaught exception: the rest of the script is
\* not run, and whether the widgets it would have rendered keep their values
\* is up to the Streamlit version; a multiselect that lost its value shows
\* its default, the selection of the session
Aborted ==
    /\ filters' \in {filters, NoFilter}
    /\ selected_links' = Overridden(selected_links)
    /\ multiselect' \in {multiselect, Overridden(selected_links)}
    /\ UNCHANGED query_params

\* "Fetch Data from GitLab API" when fetch_gitlab_json returned the parsed
\* body, which is truthy; the document is stored before extract_elements is
\* called, and nothing catches what extract_elements raises; after the
\* extraction the handler writes the settings, the token among them, to the
\* browser's localStorage
Fetched(ex, token) ==
    /\ c4_data' = ex.c4_data
    /\ mapped_elements' = IF ex.raised THEN mapped_elements ELSE ex.elements
    /\ local_storage' = IF ex.raised THEN local_storage ELSE token
    /\ UNCHANGED <<csv_data, settings_file>>
    /\ IF ex.raised THEN Aborted ELSE Rerun /\ Render(ex.elements, csv_data)

\* the handler, for the result of its call of fetch_gitlab_json: a truthy
\* value is adopted, None is reported with "Failed to fetch C4 data."
FetchHandled(result, answer, token) ==
    /\ fetch_call' = [called |-> TRUE,
                      answer |-> IF result.requests = 0 THEN "none" ELSE answer,
                      requests |-> result.requests,
                      returned_none |-> result.value = <<>>, raised |-> result.raised]
    /\ IF result.raised
       THEN UNCHANGED <<c4_data, mapped_elements, csv_data>> /\ Persisted /\ Aborted
       ELSE IF result.value # <<>>
            THEN Fetched(extract_elements(result.value[1], target_kinds), token)
            ELSE /\ UNCHANGED <<c4_data, mapped_elements, csv_data>>
                 /\ Persisted
                 /\ Rerun
                 /\ Render(mapped_elements, csv_data)

\* "Fetch Data from GitLab API" with the values of the text inputs and the
\* answer of the network
FetchWith(token, project_id, file_path, response) ==
    FetchHandled(fetch_gitlab_json(<<>>, token, project_id, file_path, response),
                 IF response \in FailureResponses THEN "failure" ELSE "json",
                 token)

\* the fetch that is answered with the JSON document doc
FetchData(doc) ==
    \E token \in Tokens : FetchWith(token, <<"1">>, <<"f">>, JsonResponse(doc))

\* the fetch that is answered with an HTTP error, a transport error or a
\* body that is no JSON, or for which a text input is empty
FetchFailed ==
    \E token \in Tokens, input \in FailingInputs :
        FetchWith(token, input[1], input[2], input[3])

\* "Upload JSON File" when json.loads raised
UploadMalformed ==
    /\ UNCHANGED <<c4_data, mapped_elements, csv_data, fetch_call>>
    /\ Persisted
    /\ Rerun
    /\ Render(mapped_elements, csv_data)

\* the debug expander of the upload handler raises: c4_data.keys() for a
\* document that is no mapping, the 'specification.elements' test for a null
\* specification
DebugRaises(doc) == ~IsMapping(doc) \/ SpecificationLookupRaises(doc)

\* "Upload JSON File" when json.loads returned doc; what the debug expander
\* raises is raised after the document was stored, and the handler catches it
Uploaded(doc, ex) ==
    /\ c4_data' = IF DebugRaises(doc) THEN doc ELSE ex.c4_data
    /\ mapped_elements' = IF DebugRaises(doc) THEN mapped_elements ELSE ex.elements
    /\ UNCHANGED <<csv_data, fetch_call>>
    /\ Persisted
    /\ Rerun
    /\ Render(IF DebugRaises(doc) THEN mapped_elements ELSE ex.elements, csv_data)

UploadJson(doc) == Uploaded(doc, extract_elements(doc, target_kinds))

\* "Upload CSV with repository information"
UploadCsv(table) ==
    /\ csv_data' = table
    /\ UNCHANGED <<c4_data, mapped_elements, fetch_call>>
    /\ Persisted
    /\ Rerun
    /\ Render(mapped_elements, table)

\* a change of "Select links to evaluate for progress:" to links; the run it
\* triggers scores with st.session_state.selected_links
SelectLinks(links) ==
    /\ links # multiselect
    /\ multiselect' = links
    /\ selected_links' = Overridden(selected_links)
    /\ UNCHANGED <<c4_data, mapped_elements, csv_data, fetch_call, query_params>>
    /\ Persisted
    /\ Render(mapped_elements, csv_data)

\* "Save Settings" with links selected in the multiselect: the selection of
\* the session becomes links; save_settings writes the settings file, without
\* token, and the handler then writes the localStorage entry, without token
SaveSettings(links) ==
    /\ multiselect' = links
    /\ selected_links' = links
    /\ settings_file' = <<>>
    /\ local_storage' = <<>>
    /\ UNCHANGED <<c4_data, mapped_elements, csv_data, fetch_call, query_params>>
    /\ Render(mapped_elements, csv_data)

\* "Clear Settings": clear_settings removes the settings file, the selection
\* is reset and st.rerun() runs the script again from the top; a multiselect
\* whose default differs from the one of the latest run shows the new default
ClearSettings ==
    /\ selected_links' = Overridden(DefaultLinks)
    /\ multiselect' = IF Overridden(DefaultLinks) = Overridden(selected_links)
                      THEN multiselect ELSE Overridden(DefaultLinks)
    /\ settings_file' = <<>>
    /\ UNCHANGED <<c4_data, mapped_elements, csv_data, fetch_call, query_params,
                   local_storage>>
    /\ Render(mapped_elements, csv_data)

\* a change of the "Filter Repositories" widgets
SetFilter(f) ==
    /\ Shown(mapped_elements, csv_data)
    /\ f # filters
    /\ UNCHANGED <<c4_data, mapped_elements, csv_data, fetch_call>>
    /\ Persisted
    /\ Rerun
    /\ filters' = f

Next ==
    \/ FetchFailed
    \/ \E doc \in JsonDocs : FetchData(doc)
    \/ UploadMalformed
    \/ \E doc \in JsonDocs : UploadJson(doc)
    \/ \E table \in Tables : UploadCsv(table)
    \/ \E links \in Selections : SaveSettings(links)
    \/ ClearSettings
    \/ \E f \in FilterSpecs : SetFilter(f)

Spec == Init /\ [][Next]_vars

\* the session fed with documents and tables over the URL spellings
NextUrls ==
    \/ \E url \in Urls : FetchData(UrlDoc(url))
    \/ \E url \in Urls : UploadCsv(UrlTable(url))

SpecUrls == Init /\ [][NextUrls]_vars

\* the session of a page opened with or without query parameters, in which
\* the user changes the multiselect, saves what it shows and clears
NextSettings ==
    \/ \E doc \in SettingsDocs : FetchData(doc)
    \/ \E table \in SettingsTables : UploadCsv(table)
    \/ \E links \in Selections \cup {DefaultLinks} : SelectLinks(links)
    \/ SaveSettings(multiselect)
    \/ ClearSettings

SpecSettings == InitSettings /\ [][NextSettings]_vars

(***************************************************************************)
(* Properties.                                                             *)
(***************************************************************************)
Titles(element) ==
    {element.links[j].title[1] :
        j \in {i \in 1..Len(element.links) : element.links[i].title # <<>>}}

\* C1: for every matched pair and every selection of link kinds, the empty
\* one included, the record's status is Complete if and only if
\* present_link_count = selected_link_count and selected_link_count > 0, and
\* Incomplete otherwise.
C1_CompleteIffAllPresent ==
    report.shown =>
        \A k \in 1..Len(matches) :
            LET r == report.progress_data[k]
            IN /\ r.Status \in {"Complete", "Incomplete"}
               /\ r.Status = "Complete" <=> (r.Links[1] = r.Links[2] /\ r.Links[2] > 0)

\* C2: whatever the filters, complete + incomplete + not_mapped is the number
\* of rows of the uploaded table.
C2_CountsAddUpToRows ==
    (report.shown /\ ~report.raised) =>
        report.complete_repos + report.incomplete_repos + report.unmapped_repos
            = Len(csv_data.rows)

\* C3: alias rule: a matched element whose only link (besides the repository
\* link that matched it) is titled "monitoring" scores 1/1 and Complete when
\* the selected link kinds are exactly <<"monitor">>.
C3_MonitoringCountsAsMonitor ==
    (report.shown /\ selected_links = <<"monitor">>) =>
        \A k \in 1..Len(matches) :
            Titles(matches[k].c4_element) = {"repository", "monitoring"} =>
                /\ report.progress_data[k].Links = <<1, 1>>
                /\ report.progress_data[k].Status = "Complete"

\* C4: every row of a table with a url column (in whatever letter case)
\* appears in the unfiltered report exactly once: as a matched record and not
\* as 'Not mapped' when it matched, as one 'Not mapped' record when it did not.
C4_EveryRowExactlyOnce ==
    (report.shown /\ FindUrlColumn(csv_data.columns) # 0) =>
        \A i \in 1..Len(csv_data.rows) :
            LET recs == {k \in 1..Len(report.progress_data) :
                            report.progress_data[k].name = i}
                matched == \E m \in 1..Len(matches) : matches[m].name = i
            IN /\ Cardinality(recs) = 1
               /\ \A k \in recs :
                     (report.progress_data[k].Status = "Not mapped") <=> ~matched

\* the element exposes a repository URL whose identity is that of the cell
SameRepository(cell, element) ==
    /\ get_repository_url(element) # <<>>
    /\ get_repository_url(element)[1] # <<>>
    /\ normalized_url(StrOf(cell)) = normalized_url(get_repository_url(element)[1])

\* C5: match_repositories emits a pair for a row if and only if the row's
\* normalized URL identity is the normalized identity of the repository URL of
\* some extracted element; the pairs come in row order, at most one per row,
\* each with its row and an element of that identity.
C5_PairIffSameIdentity ==
    (csv_data.loaded /\ FindUrlColumn(csv_data.columns) # 0) =>
        LET col == FindUrlColumn(csv_data.columns)
            ms == matches
        IN /\ \A k \in 1..(Len(ms) - 1) : ms[k].name < ms[k + 1].name
           /\ \A k \in 1..Len(ms) :
                 /\ ms[k].name \in 1..Len(csv_data.rows)
                 /\ ms[k].csv_repo = csv_data.rows[ms[k].name]
                 /\ \E j \in 1..Len(mapped_elements) :
                       /\ ms[k].c4_element = mapped_elements[j]
                       /\ SameRepository(ms[k].csv_repo[col], mapped_elements[j])
           /\ \A i \in 1..Len(csv_data.rows) :
                 (\E k \in 1..Len(ms) : ms[k].name = i)
                     <=> \E j \in 1..Len(mapped_elements) :
                            SameRepository(csv_data.rows[i][col], mapped_elements[j])

\* a table with a matched row, whose URL is spelled otherwise than the
\* element's, and an unmatched row
C5_Witness ==
    /\ csv_data.loaded
    /\ FindUrlColumn(csv_data.columns) # 0
    /\ Len(matches) >= 1
    /\ Len(matches) < Len(csv_data.rows)
    /\ \E k \in 1..Len(matches) :
          <<StrOf(matches[k].csv_repo[1])>> # get_repository_url(matches[k].c4_element)

\* C6: a fetch or a parse of a local file that fails (HTTP or transport
\* error, malformed JSON, JSON whose top level is no mapping) leaves c4_data
\* and mapped_elements as they were.
C6_FailureLeavesModel ==
    [][(\/ FetchFailed
        \/ UploadMalformed
        \/ \E doc \in JsonDocs : ~IsMapping(doc) /\ (FetchData(doc) \/ UploadJson(doc)))
          => UNCHANGED <<c4_data, mapped_elements>>]_vars

\* C7: for a table without matches or without url column, and under every
\* filter, the report is built, filtered and sorted without raising; without
\* url column it is empty and comes with a warning.
C7_ReportIsTotal ==
    (report.shown /\ matches = <<>>) =>
        /\ ~report.raised
        /\ FindUrlColumn(csv_data.columns) = 0 =>
              (report.filtered_df = <<>> /\ report.warnings # {})

\* C8: extraction, matching and scoring leave their inputs as they were: the
\* document a handler has extracted from equals the document it received.
C8_DocumentNotMutated ==
    [][\A doc \in JsonDocs :
          (IsMapping(doc) /\ (FetchData(doc) \/ UploadJson(doc))) => c4_data' = doc]_vars

\* the indexes of the links titled "repository" that carry a non-empty URL
UsableRepositoryLinks(element) ==
    {j \in 1..Len(element.links) :
        /\ element.links[j].title = <<"repository">>
        /\ element.links[j].url # <<>>
        /\ element.links[j].url[1] # <<>>}

\* C9: get_repository_url returns the URL of the first link titled
\* "repository" whose URL is non-empty, passing over earlier "repository"
\* links without URL or with an empty one, and None only if there is none.
C9_FirstNonEmptyRepositoryUrl ==
    \A e \in 1..Len(mapped_elements) :
        LET usable == UsableRepositoryLinks(mapped_elements[e])
        IN IF usable = {}
           THEN get_repository_url(mapped_elements[e]) = <<>>
           ELSE get_repository_url(mapped_elements[e])
                    = mapped_elements[e].links[
                          CHOOSE j \in usable : \A i \in usable : j <= i].url

\* C10: check_element_links returns a mapping whose keys are exactly the
\* requested kinds; a kind's flag is true if and only if some link of the
\* element has that title, with or without URL, whatever links follow it.
C10_FlagIffTitledLink ==
    \A e \in 1..Len(mapped_elements) :
        \A kinds \in Selections \cup {DefaultLinks, GridLinkTypes} :
            LET result == check_element_links(mapped_elements[e], kinds)
            IN /\ DOMAIN result = {kinds[i] : i \in 1..Len(kinds)}
               /\ \A k \in DOMAIN result :
                     result[k] <=> k \in Titles(mapped_elements[e])

\* an element whose logs link has no URL and is followed or preceded by
\* other links: logs is flagged, APM is not
C10_Witness ==
    \E e \in 1..Len(mapped_elements) :
        /\ \E j \in 1..Len(mapped_elements[e].links) :
              /\ mapped_elements[e].links[j].title = <<"logs">>
              /\ mapped_elements[e].links[j].url = <<>>
        /\ Len(mapped_elements[e].links) >= 2
        /\ check_element_links(mapped_elements[e], DefaultLinks)["logs"]
        /\ ~check_element_links(mapped_elements[e], DefaultLinks)["APM"]

\* the entries of the located elements mapping whose kind is accepted, in the
\* mapping's order, each with its key as id
ExpectedElements(doc, kinds) ==
    LET es == IF doc.shape \in {"root", "spec"} THEN doc.elements ELSE <<>>
        accepted == SelectSeq([i \in 1..Len(es) |-> i],
                              LAMBDA i : /\ es[i].data.kind # <<>>
                                         /\ es[i].data.kind[1] \in kinds)
    IN [k \in 1..Len(accepted) |->
           [es[accepted[k]].data EXCEPT !.id = <<es[accepted[k]].key>>]]

\* C11: extract_elements returns exactly the entries of the located elements
\* mapping (doc.elements, else doc.specification.elements) whose kind is in
\* target_kinds, in the mapping's order, each with its key as id; it returns
\* the empty sequence, without raising, when neither location exists.
C11_ExtractsAcceptedEntries ==
    [][\A doc \in JsonDocs :
          FetchData(doc) =>
              /\ ~extract_elements(doc, target_kinds).raised
              /\ mapped_elements' = ExpectedElements(doc, target_kinds)]_vars

\* the repository URL of the element and the URL of the row, in a session
\* with one element and one row
ElementUrl == get_repository_url(mapped_elements[1])[1]
RowUrl == StrOf(csv_data.rows[1][FindUrlColumn(csv_data.columns)])
OneElementOneRow ==
    /\ Len(mapped_elements) = 1
    /\ get_repository_url(mapped_elements[1]) # <<>>
    /\ csv_data.loaded
    /\ FindUrlColumn(csv_data.columns) # 0
    /\ Len(csv_data.rows) = 1

\* C12: two URLs that differ only in scheme, query string, fragment, letter
\* case or a trailing slash have the same identity, on the element side and
\* on the row side: the key of element_repos is the identity the row is
\* looked up with, and the row is matched.
C12_SpellingsNormalizeAlike ==
    (/\ OneElementOneRow
     /\ ElementUrl \in UrlSpellings(1)
     /\ RowUrl \in UrlSpellings(1)) =>
        /\ DOMAIN element_repos(mapped_elements) = {normalized_url(RowUrl)}
        /\ Len(matches) = 1
        /\ matches[1].c4_element = mapped_elements[1]

\* the element's URL and the row's differ in scheme, letter case, trailing
\* slash and query at once, and the row is matched
C12_Witness ==
    /\ OneElementOneRow
    /\ ElementUrl = UrlOf(<<"S">>, <<"G","/","O">>, <<"/">>, <<"?","q">>)
    /\ RowUrl = UrlOf(<<"h">>, <<"g","/","o">>, <<>>, <<>>)
    /\ Len(matches) = 1

\* C13: normalization is idempotent: normalizing the identity of a URL gives
\* that identity again, for the element's URL and for the row's.
C13_NormalizationIdempotent ==
    /\ \A e \in 1..Len(mapped_elements) :
          get_repository_url(mapped_elements[e]) # <<>> =>
              LET id == normalized_url(get_repository_url(mapped_elements[e])[1])
              IN normalized_url(id) = id
    /\ (csv_data.loaded /\ FindUrlColumn(csv_data.columns) # 0) =>
          \A i \in 1..Len(csv_data.rows) :
              LET id == normalized_url(
                            StrOf(csv_data.rows[i][FindUrlColumn(csv_data.columns)]))
              IN normalized_url(id) = id

\* the identity of host and path b with k trailing slashes, when kept of
\* every k slashes are kept
Kept(b, k, kept) == Lower(b) \o Slashes(kept[k])

\* what a URL with two or more trailing slashes normalizes to, on both sides
SlashedUrlsNormalizeTo(kept) ==
    \A sc \in Schemes, b \in HostPaths, x \in Suffixes, k \in 2..MaxSlashes :
        /\ (Len(mapped_elements) = 1 /\ get_repository_url(mapped_elements[1]) # <<>>
              /\ ElementUrl = UrlOf(sc, b, Slashes(k), x)) =>
                DOMAIN element_repos(mapped_elements) = {Kept(b, k, kept)}
        /\ (OneElementOneRow /\ RowUrl = UrlOf(sc, b, Slashes(k), x)) =>
                (Len(matches) = 1 <=>
                    Kept(b, k, kept) \in DOMAIN element_repos(mapped_elements))

KeepsAllButOne == [k \in 2..MaxSlashes |-> k - 1]
KeepsNone == [k \in 2..MaxSlashes |-> 0]

\* C18 as stated: normalization strips exactly one trailing '/': a URL whose
\* path ends in two or more slashes keeps all but one of them, and so has
\* another identity than the URL without trailing slash.
C18_StripsExactlyOneSlash == SlashedUrlsNormalizeTo(KeepsAllButOne)

\* C18 as amended: normalization strips every trailing '/': a URL whose path
\* ends in two or more slashes has the identity of the URL without trailing
\* slash, on the element side and on the row side.
C18_StripsEveryTrailingSlash ==
    /\ SlashedUrlsNormalizeTo(KeepsNone)
    /\ \A sc \in Schemes, b \in HostPaths, x \in Suffixes :
          normalized_url(UrlOf(sc, b, <<>>, x)) = Lower(b)

\* an element whose URL ends in two slashes, matched by a row whose URL has
\* no trailing slash
C18_Witness ==
    /\ OneElementOneRow
    /\ ElementUrl = UrlOf(<<"h">>, <<"g","/","o">>, Slashes(2), <<>>)
    /\ RowUrl = UrlOf(<<"h">>, <<"g","/","o">>, <<>>, <<>>)
    /\ Len(matches) = 1

\* C14: for every record of the report, 0 <= progress_percent <= 100 and
\* 0 <= present_link_count <= selected_link_count; with an empty selection
\* of link kinds progress_percent is 0 and nothing is divided by zero.
C14_ProgressWithinBounds ==
    LET rep == report
    IN rep.shown =>
        \A k \in 1..Len(rep.progress_data) :
            LET r == rep.progress_data[k]
            IN /\ r.Progress.den > 0
               /\ 0 <= r.Progress.num
               /\ r.Progress.num <= 100 * r.Progress.den
               /\ 0 <= r.Links[1]
               /\ r.Links[1] <= r.Links[2]
               /\ selected_links = <<>> => r.Progress.num = 0

\* a matched record scored with an empty selection, next to a record that is
\* not mapped
C14_Witness ==
    /\ report.shown
    /\ selected_links = <<>>
    /\ Len(matches) >= 1
    /\ Len(report.progress_data) > Len(matches)
    /\ report.progress_data[1].Links = <<0, 0>>
    /\ report.progress_data[1].Progress.num = 0

\* a record satisfies the four filters, the searches being substring searches
Satisfies(r, f) ==
    /\ f.status = "All" \/ r.Status = f.status
    /\ r.Progress.num >= f.min_progress * r.Progress.den
    /\ r.Progress.num <= f.max_progress * r.Progress.den
    /\ f.search_term = <<>>
          \/ (r.Repository.t = "str"
               /\ Contains(Lower(r.Repository.v), Lower(f.search_term)))
    /\ f.element_search = <<>> \/ Contains(Lower(r.Element), Lower(f.element_search))

\* C15: the filters compose with logical AND: the displayed rows are exactly
\* the records that satisfy the status filter, the inclusive progress range,
\* the case-insensitive repository substring search and the case-insensitive
\* element substring search; so the rows under a filter are among the rows
\* under the filter with any of its parts left out.
C15_FiltersComposeWithAnd ==
    (report.shown /\ ~report.raised) =>
        report.filtered_df
            = SelectSeq(report.progress_data, LAMBDA r : Satisfies(r, filters))

\* the stable descending order of df: each record goes behind every record
\* that is not smaller
RECURSIVE InsertDesc(_, _)
InsertDesc(sorted, r) ==
    IF sorted = <<>> THEN <<r>>
    ELSE IF Greater(r, Head(sorted)) THEN <<r>> \o sorted
         ELSE <<Head(sorted)>> \o InsertDesc(Tail(sorted), r)

RECURSIVE SortDescFrom(_, _, _)
SortDescFrom(df, k, acc) ==
    IF k > Len(df) THEN acc ELSE SortDescFrom(df, k + 1, InsertDesc(acc, df[k]))

\* C16: the displayed report is ordered by progress_percent descending, and
\* records of equal progress_percent keep their relative input order
\* (matched records in match order, then unmatched rows in table order).
C16_StableDescendingOrder ==
    \A d \in displayed : d = SortDescFrom(report.filtered_df, 1, <<>>)

\* C17: end to end: for a document with one service element "Orders" with
\* the links [repository -> its URL, logs without URL], a table with the
\* rows orders and billing, and the selection [repository, logs, APM], the
\* report has exactly two records: orders matched with 2 of 3 links and
\* Incomplete, billing with 0/0 and Not mapped; the aggregates are complete
\* 0, incomplete 1, not mapped 1, total 2.
C17_EndToEnd ==
    (/\ mapped_elements = ExpectedElements(DocOrders, target_kinds)
     /\ csv_data = [loaded |-> TRUE, columns |-> <<UrlName>>,
                    rows |-> << <<Str(UrlOrders)>>, <<Str(UrlBilling)>> >>]
     /\ selected_links = <<"repository", "logs", "APM">>) =>
        /\ report.shown
        /\ Len(report.progress_data) = 2
        /\ report.progress_data[1].Repository = Str(UrlOrders)
        /\ report.progress_data[1].Element = <<"O","r">>
        /\ report.progress_data[1].Links = <<2, 3>>
        /\ report.progress_data[1].Progress.num * 3
              = 200 * report.progress_data[1].Progress.den
        /\ report.progress_data[1].Status = "Incomplete"
        /\ report.progress_data[2].Repository = Str(UrlBilling)
        /\ report.progress_data[2].Links = <<0, 0>>
        /\ report.progress_data[2].Progress.num = 0
        /\ report.progress_data[2].Status = "Not mapped"
        /\ report.complete_repos = 0
        /\ report.incomplete_repos = 1
        /\ report.unmapped_repos = 1
        /\ report.total_repos = 2

\* the session of the example, with its report of two records
C17_Witness ==
    /\ Len(mapped_elements) = 1
    /\ mapped_elements[1].kind = <<"service">>
    /\ mapped_elements[1].id = <<"x">>
    /\ csv_data.columns = <<UrlName>>
    /\ csv_data.rows = << <<Str(UrlOrders)>>, <<Str(UrlBilling)>> >>
    /\ selected_links = <<"repository", "logs", "APM">>
    /\ filters = NoFilter
    /\ Len(report.progress_data) = 2
    /\ Len(matches) = 1

\* the elements whose repository URL has the identity of the cell
Colliding(cell) ==
    {j \in 1..Len(mapped_elements) : SameRepository(cell, mapped_elements[j])}

\* C19: when several extracted elements have repository URLs of the same
\* identity, every row of that identity is paired with the last of them in
\* extraction order, and with none of the earlier ones.
C19_LastElementWins ==
    (csv_data.loaded /\ FindUrlColumn(csv_data.columns) # 0) =>
        LET ms == matches
        IN \A i \in 1..Len(csv_data.rows) :
            LET cell == csv_data.rows[i][FindUrlColumn(csv_data.columns)]
                same == Colliding(cell)
                last == CHOOSE j \in same : \A h \in same : h <= j
            IN (Truthy(cell) /\ same # {}) =>
                  \E k \in 1..Len(ms) :
                      /\ ms[k].name = i
                      /\ ms[k].c4_element = mapped_elements[last]
                      /\ \A h \in same \ {last} :
                            ms[k].c4_element # mapped_elements[h]

\* a row whose identity two elements share, paired with the later one
C19_Witness ==
    /\ csv_data.loaded
    /\ FindUrlColumn(csv_data.columns) # 0
    /\ \E k \in 1..Len(matches) :
          /\ Cardinality(Colliding(
                 matches[k].csv_repo[FindUrlColumn(csv_data.columns)])) >= 2
          /\ matches[k].c4_element.id = <<"b">>

\* C20: fetch_gitlab_json fails only by returning None: for every HTTP error
\* status, transport error or body that is no JSON it returns None and
\* raises nothing, and one fetch issues at most one network request.
C20_FetchFailsByReturningNone ==
    fetch_call.called =>
        /\ ~fetch_call.raised
        /\ fetch_call.requests <= 1
        /\ fetch_call.answer = "failure" => fetch_call.returned_none
        /\ fetch_call.requests = 0 => fetch_call.returned_none

\* a fetch that issued its request and returned None
C20_Witness ==
    /\ fetch_call.called
    /\ fetch_call.answer = "failure"
    /\ fetch_call.requests = 1
    /\ fetch_call.returned_none
    /\ ~fetch_call.raised

\* C21: the link kinds a run scores with are the ones selected in the
\* multiselect: once the user has changed the selection, the report of that
\* run and of every later run is the report for the new selection, whether
\* or not "Save Settings" was clicked and whatever the query parameters.
C21_ReportUsesMultiselect ==
    report = ReportOf(mapped_elements, csv_data, multiselect, filters)

\* C22: in every state in which a document is stored, the stored element
\* list is the extraction of the stored document for the five target kinds:
\* mapped_elements = extract_elements(c4_data, target_kinds).
C22_ElementsAreExtraction ==
    c4_data # NoDoc =>
        LET ex == extract_elements(c4_data, target_kinds)
        IN  ~ex.raised /\ mapped_elements = ex.elements

\* C23: the GitLab token is never written to persistent storage: after any
\* sequence of fetch, save and clear actions neither the settings file nor
\* the localStorage settings entry holds the token.
C23_TokenNeverPersisted ==
    settings_file = <<>> /\ local_storage = <<>>

\* C24: the "Missing" number shown for an incomplete repository is the
\* record's selected_link_count minus its present_link_count.
C24_MissingIsSelectedMinusPresent ==
    \A shown \in attention_needed :
        \A i \in 1..Len(shown) :
            Missing(shown[i], selected_links) = shown[i].Links[2] - shown[i].Links[1]

====
